---- MODULE Spec2Model ----
(***************************************************************************)
(* fg-calendar-reminder: the scheduler loop of create_daemon and one cycle *)
(* of monitor_events (create_service, the clock read, the sleep-hours      *)
(* check, the Calendar API call, the matching of events against            *)
(* MINUTES_LEFT, and the two subprocess.Popen launches).                   *)
(*                                                                         *)
(* Time is the naive local wall clock in whole seconds since midnight of   *)
(* day 0; a datetime is [sec, us] with us the microsecond field.           *)
(***************************************************************************)
EXTENDS Integers, Sequences, FiniteSets, TLC

(***************************************************************************)
(* Bounds of the model.                                                    *)
(***************************************************************************)
\* events in one response of the Calendar API (the code asks for at most 10)
MaxEvents == 2
\* cycles of the while-True loop that are explored
MaxCycles == 2
\* seconds of wall-clock time one cycle's work may take
MaxWork == 1
\* windows in a SLEEP_HOURS list explored by SpecQuiet
MaxWindows == 2
\* cycles explored when the run follows a single event (SpecCadence)
MaxCadenceCycles == 13

(***************************************************************************)
(* Configuration of the program (module-level settings).                   *)
(***************************************************************************)
MINUTES_LEFT == <<1, 5, 10>>

NOTIFY_TIME_MS == "50000"

\* characters of the title shown in the heading of a single-event reminder
SummaryLimit == 50

SLEEP_HOURS == << <<20, 6>> >>

(***************************************************************************)
(* Inputs the environment can produce.                                     *)
(***************************************************************************)
Hms(d, h, m, s) == d * 86400 + h * 3600 + m * 60 + s

\* the instants at which the daemon may be started
StartClocks == { Hms(2, 10, 0, 0), Hms(2, 19, 59, 30), Hms(2, 6, 59, 59),
                 Hms(2, 23, 59, 59) }

\* microsecond fields datetime.now() may return
Micros == {0, 500000}

\* start of a timed event, in seconds relative to the cycle's clock reading
Deltas == { -86100, -60, 30, 89, 90, 295, 86700 }

\* titles of events, as sequences of characters: a short one and one that is
\* one character longer than the heading shows
Summaries == { << "s", "t", "a", "n", "d", "u", "p" >>,
               [i \in 1..(SummaryLimit + 1) |-> "x"] }

\* the titles an event starting d seconds from the reading may carry: the
\* long title is explored on the events about to start
SummariesAt(d) ==
    IF d \in {89, 295} THEN Summaries
    ELSE { << "s", "t", "a", "n", "d", "u", "p" >> }

\* UTC offsets (seconds) the 'dateTime' strings of one response carry
TzOffsets == {0, 3600}

VARIABLES
    pc,           \* position of the single thread of control
    clock,        \* wall clock, whole seconds
    cycle,        \* number of the current iteration of the while loop
    work,         \* seconds the current cycle's work has taken so far
    sleepHours,   \* the SLEEP_HOURS setting in force
    nowDatetime,  \* now_datetime of monitor_events: [sec, us]
    skipped,      \* the sleep-hours loop returned in this cycle
    events,       \* the 'items' of events_result in this cycle
    alerts,       \* the alerts list of this cycle
    fetchCalls,   \* calls of events().list(...).execute() in this cycle
    notifyLaunched, \* notify-send processes launched in this cycle
    audioLaunched,  \* AUDIO_PLAY_CMD processes launched in this cycle
    exc,          \* the call whose exception ended the loop, or "none"
    waitTime,     \* wait_time of create_daemon
    ret,          \* return value of create_daemon, -1 while it runs
    notifyArgs,   \* argument list of the notify-send launch of this cycle
    tracked,      \* the one event the calendar holds in a single-event run
    hits,         \* per offset, cycles so far that alerted the tracked event
    exact,        \* every clock reading came exactly 60 s after the last
    childRunning,   \* a launched child process is still running
    serviceCalls,   \* calls of create_service() in this cycle
    raisedAt   \* position at which the exception that ended the loop was raised

vars == << pc, clock, cycle, work, sleepHours, nowDatetime, skipped, events,
           alerts, fetchCalls, notifyLaunched, audioLaunched, exc, waitTime,
           ret, raisedAt, notifyArgs, tracked, hits, exact, childRunning,
           serviceCalls >>

(***************************************************************************)
(* datetime and timedelta arithmetic.                                      *)
(***************************************************************************)
Hour(dt) == (dt.sec \div 3600) % 24

Second(dt) == dt.sec % 60

\* TimeDelta whose seconds field is the whole difference (total_seconds())
TimeDeltaTotal(a, b) ==
    LET us   == a.us - b.us
        secs == (a.sec - b.sec) + (us \div 1000000)
    IN  [ days         |-> secs \div 86400,
          seconds      |-> secs,
          microseconds |-> us % 1000000 ]

\* a - b as Python normalises it: seconds in 0..86399 and microseconds in
\* 0..999999, the sign carried by days alone
TimeDelta(a, b) ==
    LET us   == a.us - b.us
        secs == (a.sec - b.sec) + (us \div 1000000)
    IN  [ days         |-> secs \div 86400,
          seconds      |-> secs % 86400,
          microseconds |-> us % 1000000 ]

\* Python 3 round() of n / 60 for an integer n >= 0: ties go to the even
\* neighbour
RoundMinutes(n) ==
    LET q == n \div 60
        r == n % 60
    IN  IF 2 * r < 60 THEN q
        ELSE IF 2 * r > 60 THEN q + 1
        ELSE IF q % 2 = 0 THEN q ELSE q + 1

\* event['start'].get('dateTime', event['start'].get('date'))
StartString(event) ==
    IF event.start.dateTime.kind # "absent" THEN event.start.dateTime
    ELSE event.start.date

\* datetime.fromisoformat: a date-only string is midnight without tzinfo
FromIsoformat(start) ==
    IF start.kind = "date"
    THEN [sec |-> start.day * 86400, us |-> 0, tzinfo |-> 0, aware |-> FALSE]
    ELSE [sec |-> start.wall, us |-> 0, tzinfo |-> start.utcoffset,
          aware |-> TRUE]

\* .replace(tzinfo=None): the wall-clock fields are kept, the offset dropped
ReplaceTzinfoNone(dt) == [sec |-> dt.sec, us |-> dt.us]

MinsLeft(event, now) ==
    RoundMinutes(TimeDelta(ReplaceTzinfoNone(FromIsoformat(StartString(event))),
                           now).seconds)

OffsetSet == { MINUTES_LEFT[i] : i \in 1..Len(MINUTES_LEFT) }

InMinutesLeft(m) == \E i \in 1..Len(MINUTES_LEFT) : MINUTES_LEFT[i] = m

Alert(summary, date, minutes_left) ==
    [summary |-> summary, date |-> date, minutes_left |-> minutes_left]

\* Alert.__str__
AlertStr(alert) ==
    [ fmt  |-> "In %d minutes [%s] -> %s",
      args |-> << alert.minutes_left, alert.date, alert.summary >> ]

\* s[:n]
Slice(s, n) == SubSeq(s, 1, IF Len(s) < n THEN Len(s) ELSE n)

\* NotifyTitle with the whole summary in the heading
NotifyTitleWhole(als) ==
    IF Len(als) = 1
    THEN [fmt |-> "Upcoming event: %s", args |-> << als[1].summary >>]
    ELSE [fmt |-> "Upcoming events: %d", args |-> << Len(als) >>]

\* the heading of the reminder
NotifyTitle(als) ==
    IF Len(als) = 1
    THEN [fmt  |-> "Upcoming event: %s",
          args |-> << Slice(als[1].summary, SummaryLimit) >>]
    ELSE [fmt |-> "Upcoming events: %d", args |-> << Len(als) >>]

\* the text of the reminder; "\n".join keeps the order of the list
NotifyBody(als) ==
    IF Len(als) = 1 THEN AlertStr(als[1])
    ELSE [sep |-> "\n", items |-> [i \in 1..Len(als) |-> AlertStr(als[i])]]

NotifyCommand(als) ==
    << "notify-send", "-t", NOTIFY_TIME_MS, NotifyTitle(als), NotifyBody(als) >>

RECURSIVE MatchEventsPrepend(_, _)
\* MatchEvents with each alert inserted at the head of the list
MatchEventsPrepend(evs, now) ==
    IF evs = << >> THEN << >>
    ELSE LET event == Head(evs)
             mins_left == MinsLeft(event, now)
         IN  MatchEventsPrepend(Tail(evs), now)
             \o (IF InMinutesLeft(mins_left)
                 THEN << Alert(event.summary, StartString(event), mins_left) >>
                 ELSE << >>)

RECURSIVE MatchEvents(_, _)
\* the for loop over events: alerts are appended in the order of the events
MatchEvents(evs, now) ==
    IF evs = << >> THEN << >>
    ELSE LET event == Head(evs)
             mins_left == MinsLeft(event, now)
         IN  (IF InMinutesLeft(mins_left)
              THEN << Alert(event.summary, StartString(event), mins_left) >>
              ELSE << >>) \o MatchEvents(Tail(evs), now)

(***************************************************************************)
(* The sleep-hours check.                                                  *)
(***************************************************************************)
\* WindowSkip with 'and' for 'or' in the test of a window that wraps midnight
WindowSkipWrapAnd(start, end, cur_hour) ==
    IF end < start /\ (start <= cur_hour /\ cur_hour <= end) THEN TRUE
    ELSE IF start <= cur_hour /\ cur_hour <= end THEN TRUE
    ELSE FALSE

\* WindowSkip with a strict comparison in the test of a window that does
\* not wrap
WindowSkipStrict(start, end, cur_hour) ==
    IF end < start /\ (start <= cur_hour \/ cur_hour <= end) THEN TRUE
    ELSE IF start < cur_hour /\ cur_hour <= end THEN TRUE
    ELSE FALSE

WindowSkip(start, end, cur_hour) ==
    IF end < start /\ (start <= cur_hour \/ cur_hour <= end) THEN TRUE
    ELSE IF start <= cur_hour /\ cur_hour <= end THEN TRUE
    ELSE FALSE

\* SleepHoursSkip that leaves the loop after its first window
SleepHoursSkipFirstOnly(windows, cur_hour) ==
    IF windows = << >> THEN FALSE
    ELSE WindowSkip(Head(windows)[1], Head(windows)[2], cur_hour)

RECURSIVE SleepHoursSkip(_, _)
\* the for loop over SLEEP_HOURS, which returns at the first window that skips
SleepHoursSkip(windows, cur_hour) ==
    IF windows = << >> THEN FALSE
    ELSE IF WindowSkip(Head(windows)[1], Head(windows)[2], cur_hour) THEN TRUE
    ELSE SleepHoursSkip(Tail(windows), cur_hour)

(***************************************************************************)
(* Responses of the Calendar API.                                          *)
(***************************************************************************)
TimedEvent(summary, wall, utcoffset) ==
    [ summary |-> summary,
      start   |-> [ dateTime |-> [kind |-> "dateTime", wall |-> wall,
                                  utcoffset |-> utcoffset],
                    date     |-> [kind |-> "absent"] ] ]

AllDayEvent(summary, day) ==
    [ summary |-> summary,
      start   |-> [ dateTime |-> [kind |-> "absent"],
                    date     |-> [kind |-> "date", day |-> day] ] ]

StartWall(event) == FromIsoformat(StartString(event)).sec

\* events a response may hold when the clock reads now: timed events (the
\* API filters on the end time, so an event under way is returned with its
\* start in the past) and all-day events of today and tomorrow
EventsAt(now, utcoffset) ==
    UNION { { TimedEvent(s, now.sec + d, utcoffset) : s \in SummariesAt(d) } :
                d \in Deltas }
    \cup { AllDayEvent(<< "s", "t", "a", "n", "d", "u", "p" >>,
                       (now.sec \div 86400) + k) : k \in {0, 1} }

\* orderBy='startTime'
OrderedByStart(evs) ==
    \A i \in 1..(Len(evs) - 1) : StartWall(evs[i]) <= StartWall(evs[i + 1])

Responses(now) ==
    UNION { { evs \in [1..n -> EventsAt(now, tz)] : OrderedByStart(evs) } :
                n \in 0..MaxEvents, tz \in TzOffsets }

\* what execute() may return: the tracked event alone when the run follows
\* one event, any response otherwise
CalendarResponses(now) ==
    IF tracked.on
    THEN { << TimedEvent(<< "s", "t", "a", "n", "d", "u", "p" >>,
                         tracked.start, 0) >> }
    ELSE Responses(now)

\* the alerts of one cycle counted per offset
CountHits(h, als) ==
    [m \in OffsetSet |->
        h[m] + Cardinality({ j \in 1..Len(als) : als[j].minutes_left = m })]

\* iterations of the loop that are explored
CycleLimit == IF tracked.on THEN MaxCadenceCycles ELSE MaxCycles

(***************************************************************************)
(* Initial state: create_daemon has forked and is about to enter the loop. *)
(***************************************************************************)
Init ==
    /\ pc = "create_service"
    /\ clock \in StartClocks
    /\ cycle = 1
    /\ work = 0
    /\ sleepHours = SLEEP_HOURS
    /\ nowDatetime = [sec |-> 0, us |-> 0]
    /\ skipped = FALSE
    /\ events = << >>
    /\ alerts = << >>
    /\ fetchCalls = 0
    /\ notifyLaunched = 0
    /\ audioLaunched = 0
    /\ exc = "none"
    /\ waitTime = 0
    /\ ret = -1
    /\ notifyArgs = << >>
    /\ tracked = [on |-> FALSE, start |-> 0]
    /\ hits = [m \in OffsetSet |-> 0]
    /\ exact = TRUE
    /\ childRunning = FALSE
    /\ serviceCalls = 0
    /\ raisedAt = "none"

(***************************************************************************)
(* The handlers of create_daemon around the loop: 'except SystemExit'      *)
(* passes and the function returns 0 after the try statement, 'except      *)
(* Exception' returns 1.                                                   *)
(***************************************************************************)
\* ExceptReturn with one return value for both handlers
ExceptReturnSame(kind) == 1

ExceptReturn(kind) == IF kind = "SystemExit" THEN 0 ELSE 1

(***************************************************************************)
(* monitor_events, one step per call that leaves the process.  An          *)
(* exception of a call propagates out of monitor_events to the handlers of *)
(* create_daemon: 'except Exception' logs it and returns 1.                *)
(***************************************************************************)
\* wall-clock time passing while the cycle waits for create_service or for
\* the Calendar API to answer
Tick ==
    /\ pc \in {"create_service", "fetch"}
    /\ work < MaxWork
    /\ clock' = clock + 1
    /\ work' = work + 1
    /\ UNCHANGED << pc, cycle, sleepHours, nowDatetime, skipped, events,
                    alerts, fetchCalls, notifyLaunched, audioLaunched, exc,
                    waitTime, ret, raisedAt, notifyArgs, tracked, hits, exact,
                    childRunning, serviceCalls >>

\* CreateServiceOk of a monitor_events that builds the service only after the
\* sleep-hours check: no call in a sleep hour
CreateServiceOkAfterCheck ==
    /\ pc = "create_service"
    /\ pc' = "now"
    /\ serviceCalls' =
          IF SleepHoursSkip(sleepHours, Hour([sec |-> clock, us |-> 0]))
          THEN serviceCalls ELSE serviceCalls + 1
    /\ UNCHANGED << clock, cycle, work, sleepHours, nowDatetime, skipped,
                    events, alerts, fetchCalls, notifyLaunched, audioLaunched,
                    exc, waitTime, ret, raisedAt, notifyArgs, tracked, hits,
                    exact, childRunning >>

CreateServiceOk ==
    /\ pc = "create_service"
    /\ pc' = "now"
    /\ serviceCalls' = serviceCalls + 1
    /\ UNCHANGED << clock, cycle, work, sleepHours, nowDatetime, skipped,
                    events, alerts, fetchCalls, notifyLaunched, audioLaunched,
                    exc, waitTime, ret, raisedAt, notifyArgs, tracked, hits,
                    exact, childRunning >>

CreateServiceRaise ==
    /\ pc = "create_service"
    /\ pc' = "stopped"
    /\ exc' = "create_service"
    /\ raisedAt' = pc
    /\ ret' = ExceptReturn("Exception")
    /\ serviceCalls' = serviceCalls + 1
    /\ UNCHANGED << clock, cycle, work, sleepHours, nowDatetime, skipped,
                    events, alerts, fetchCalls, notifyLaunched, audioLaunched,
                    waitTime, notifyArgs, tracked, hits, exact, childRunning >>

\* now_datetime = datetime.datetime.now(); the UTC reading 'now' of the line
\* before is only passed to the API as timeMin
ReadNow ==
    /\ pc = "now"
    /\ \E us \in Micros :
          /\ nowDatetime' = [sec |-> clock, us |-> us]
          /\ exact' = IF tracked.on
                      THEN exact /\ (cycle = 1 \/ (clock - nowDatetime.sec = 60
                                                    /\ us = nowDatetime.us))
                      ELSE exact
    /\ pc' = "sleep_hours"
    /\ UNCHANGED << clock, cycle, work, sleepHours, skipped, events, alerts,
                    fetchCalls, notifyLaunched, audioLaunched, exc, waitTime,
                    ret, raisedAt, notifyArgs, tracked, hits, childRunning,
                    serviceCalls >>

\* SleepHoursCheck without the return: the cycle goes on in a sleep hour
SleepHoursCheckNoReturn ==
    /\ pc = "sleep_hours"
    /\ skipped' = SleepHoursSkip(sleepHours, Hour(nowDatetime))
    /\ pc' = "fetch"
    /\ UNCHANGED << clock, cycle, work, sleepHours, nowDatetime, events,
                    alerts, fetchCalls, notifyLaunched, audioLaunched, exc,
                    waitTime, ret, raisedAt, notifyArgs, tracked, hits, exact,
                    childRunning, serviceCalls >>

\* the loop over SLEEP_HOURS: return, or go on to the Calendar API
SleepHoursCheck ==
    /\ pc = "sleep_hours"
    /\ IF SleepHoursSkip(sleepHours, Hour(nowDatetime))
       THEN skipped' = TRUE /\ pc' = "wait"
       ELSE skipped' = FALSE /\ pc' = "fetch"
    /\ UNCHANGED << clock, cycle, work, sleepHours, nowDatetime, events,
                    alerts, fetchCalls, notifyLaunched, audioLaunched, exc,
                    waitTime, ret, raisedAt, notifyArgs, tracked, hits, exact,
                    childRunning, serviceCalls >>

\* EventsListOk that reads the clock again for the matching
EventsListOkNewReading ==
    /\ pc = "fetch"
    /\ \E evs \in CalendarResponses(nowDatetime) :
          /\ events' = evs
          /\ alerts' = MatchEvents(evs, [sec |-> clock,
                                        us  |-> nowDatetime.us])
    /\ hits' = IF tracked.on THEN CountHits(hits, alerts') ELSE hits
    /\ fetchCalls' = fetchCalls + 1
    /\ pc' = IF alerts' = << >> THEN "wait" ELSE "notify"
    /\ UNCHANGED << clock, cycle, work, sleepHours, nowDatetime, skipped,
                    notifyLaunched, audioLaunched, exc, waitTime, ret,
                    raisedAt, notifyArgs, tracked, exact, childRunning,
                    serviceCalls >>

\* events().list(...).execute() returns; the events are matched and the
\* function returns when there is no alert
EventsListOk ==
    /\ pc = "fetch"
    /\ \E evs \in CalendarResponses(nowDatetime) :
          /\ events' = evs
          /\ alerts' = MatchEvents(evs, nowDatetime)
    /\ hits' = IF tracked.on THEN CountHits(hits, alerts') ELSE hits
    /\ fetchCalls' = fetchCalls + 1
    /\ pc' = IF alerts' = << >> THEN "wait" ELSE "notify"
    /\ UNCHANGED << clock, cycle, work, sleepHours, nowDatetime, skipped,
                    notifyLaunched, audioLaunched, exc, waitTime, ret,
                    raisedAt, notifyArgs, tracked, exact, childRunning,
                    serviceCalls >>

\* EventsListRaise with the exception caught and the call made again
EventsListRaiseRetry ==
    /\ pc = "fetch"
    /\ fetchCalls < 2
    /\ fetchCalls' = fetchCalls + 1
    /\ exc' = "fetch"
    /\ UNCHANGED << pc, clock, cycle, work, sleepHours, nowDatetime, skipped,
                    events, alerts, notifyLaunched, audioLaunched, waitTime,
                    ret, raisedAt, notifyArgs, tracked, hits, exact,
                    childRunning, serviceCalls >>

\* events().list(...).execute() raises
EventsListRaise ==
    /\ pc = "fetch"
    /\ fetchCalls' = fetchCalls + 1
    /\ pc' = "stopped"
    /\ exc' = "fetch"
    /\ raisedAt' = pc
    /\ ret' = ExceptReturn("Exception")
    /\ UNCHANGED << clock, cycle, work, sleepHours, nowDatetime, skipped,
                    events, alerts, notifyLaunched, audioLaunched, waitTime,
                    notifyArgs, tracked, hits, exact, childRunning,
                    serviceCalls >>

\* subprocess.Popen(['notify-send', ...]), either branch of len(alerts) == 1
PopenNotifyOk ==
    /\ pc = "notify"
    /\ notifyLaunched' = notifyLaunched + 1
    /\ pc' = "audio"
    /\ notifyArgs' = NotifyCommand(alerts)
    /\ childRunning' = TRUE
    /\ UNCHANGED << clock, cycle, work, sleepHours, nowDatetime, skipped,
                    events, alerts, fetchCalls, audioLaunched, exc, waitTime,
                    ret, raisedAt, tracked, hits, exact, serviceCalls >>

PopenNotifyRaise ==
    /\ pc = "notify"
    /\ pc' = "stopped"
    /\ exc' = "notify"
    /\ raisedAt' = pc
    /\ ret' = ExceptReturn("Exception")
    /\ UNCHANGED << clock, cycle, work, sleepHours, nowDatetime, skipped,
                    events, alerts, fetchCalls, notifyLaunched, audioLaunched,
                    waitTime, notifyArgs, tracked, hits, exact, childRunning,
                    serviceCalls >>

\* subprocess.Popen(AUDIO_PLAY_CMD)
PopenAudioOk ==
    /\ pc = "audio"
    /\ audioLaunched' = audioLaunched + 1
    /\ pc' = "wait"
    /\ childRunning' = TRUE
    /\ UNCHANGED << clock, cycle, work, sleepHours, nowDatetime, skipped,
                    events, alerts, fetchCalls, notifyLaunched, exc, waitTime,
                    ret, raisedAt, notifyArgs, tracked, hits, exact,
                    serviceCalls >>

PopenAudioRaise ==
    /\ pc = "audio"
    /\ pc' = "stopped"
    /\ exc' = "audio"
    /\ raisedAt' = pc
    /\ ret' = ExceptReturn("Exception")
    /\ UNCHANGED << clock, cycle, work, sleepHours, nowDatetime, skipped,
                    events, alerts, fetchCalls, notifyLaunched, audioLaunched,
                    waitTime, notifyArgs, tracked, hits, exact, childRunning,
                    serviceCalls >>

(***************************************************************************)
(* create_daemon: the rest of the loop body.                               *)
(***************************************************************************)
\* SystemExit is raised while the thread is inside one of the calls of the
\* try statement (a termination request)
RaiseSystemExit ==
    /\ pc \in {"create_service", "fetch", "notify", "audio", "sleep"}
    /\ raisedAt' = pc
    /\ pc' = "stopped"
    /\ exc' = "SystemExit"
    /\ ret' = ExceptReturn("SystemExit")
    /\ fetchCalls' = IF pc = "fetch" THEN fetchCalls + 1 ELSE fetchCalls
    /\ serviceCalls' = IF pc = "create_service" THEN serviceCalls + 1
                       ELSE serviceCalls
    /\ UNCHANGED << clock, cycle, work, sleepHours, nowDatetime, skipped,
                    events, alerts, notifyLaunched, audioLaunched, waitTime,
                    notifyArgs, tracked, hits, exact, childRunning >>

\* ComputeWaitTime that takes the seconds left modulo a minute
ComputeWaitTimeModulo ==
    /\ pc = "wait"
    /\ waitTime' = (60 - Second([sec |-> clock, us |-> 0])) % 60
    /\ pc' = "sleep"
    /\ UNCHANGED << clock, cycle, work, sleepHours, nowDatetime, skipped,
                    events, alerts, fetchCalls, notifyLaunched, audioLaunched,
                    exc, ret, raisedAt, notifyArgs, tracked, hits, exact,
                    childRunning, serviceCalls >>

\* ComputeWaitTime that always waits a whole minute
ComputeWaitTimeFixed ==
    /\ pc = "wait"
    /\ waitTime' = 60
    /\ pc' = "sleep"
    /\ UNCHANGED << clock, cycle, work, sleepHours, nowDatetime, skipped,
                    events, alerts, fetchCalls, notifyLaunched, audioLaunched,
                    exc, ret, raisedAt, notifyArgs, tracked, hits, exact,
                    childRunning, serviceCalls >>

\* wait_time = 60 - datetime.datetime.now().second
ComputeWaitTime ==
    /\ pc = "wait"
    /\ waitTime' = 60 - Second([sec |-> clock, us |-> 0])
    /\ pc' = "sleep"
    /\ UNCHANGED << clock, cycle, work, sleepHours, nowDatetime, skipped,
                    events, alerts, fetchCalls, notifyLaunched, audioLaunched,
                    exc, ret, raisedAt, notifyArgs, tracked, hits, exact,
                    childRunning, serviceCalls >>

\* a child process ends on its own while the daemon sleeps; Popen is never
\* waited for, so the daemon takes no step of its own here
ChildExit ==
    /\ pc = "sleep"
    /\ childRunning
    /\ childRunning' = FALSE
    /\ UNCHANGED << pc, clock, cycle, work, sleepHours, nowDatetime, skipped,
                    events, alerts, fetchCalls, notifyLaunched, audioLaunched,
                    exc, waitTime, ret, raisedAt, notifyArgs, tracked, hits,
                    exact, serviceCalls >>

\* TimeSleep that returns at once, the next iteration starting right away
TimeSleepNoWait ==
    /\ pc = "sleep"
    /\ cycle < CycleLimit
    /\ clock' = clock
    /\ cycle' = cycle + 1
    /\ work' = 0
    /\ skipped' = FALSE
    /\ events' = << >>
    /\ alerts' = << >>
    /\ fetchCalls' = 0
    /\ notifyLaunched' = 0
    /\ audioLaunched' = 0
    /\ pc' = "create_service"
    /\ notifyArgs' = << >>
    /\ serviceCalls' = 0
    /\ UNCHANGED << sleepHours, nowDatetime, exc, waitTime, ret, raisedAt,
                    tracked, hits, exact, childRunning >>

\* time.sleep(wait_time), then the next iteration calls monitor_events,
\* whose locals start afresh
TimeSleep ==
    /\ pc = "sleep"
    /\ cycle < CycleLimit
    /\ clock' = clock + waitTime
    /\ cycle' = cycle + 1
    /\ work' = 0
    /\ skipped' = FALSE
    /\ events' = << >>
    /\ alerts' = << >>
    /\ fetchCalls' = 0
    /\ notifyLaunched' = 0
    /\ audioLaunched' = 0
    /\ pc' = "create_service"
    /\ notifyArgs' = << >>
    /\ serviceCalls' = 0
    /\ UNCHANGED << sleepHours, nowDatetime, exc, waitTime, ret, raisedAt,
                    tracked, hits, exact, childRunning >>

Next ==
    \/ Tick
    \/ CreateServiceOk
    \/ CreateServiceRaise
    \/ ReadNow
    \/ SleepHoursCheck
    \/ EventsListOk
    \/ EventsListRaise
    \/ PopenNotifyOk
    \/ PopenNotifyRaise
    \/ PopenAudioOk
    \/ PopenAudioRaise
    \/ RaiseSystemExit
    \/ ComputeWaitTime
    \/ ChildExit
    \/ TimeSleep

Spec == Init /\ [][Next]_vars

TypeOK ==
    /\ pc \in {"create_service", "now", "sleep_hours", "fetch", "notify",
               "audio", "wait", "sleep", "stopped"}
    /\ cycle \in 1..CycleLimit
    /\ Len(events) <= MaxEvents
    /\ Len(alerts) <= Len(events)
    /\ ret \in {-1, 0, 1}

(***************************************************************************)
(* The sleep-hours check as a function of the hour and of the setting:     *)
(* the setting is drawn from the lists of up to MaxWindows windows over    *)
(* QuietGrid and from all single windows, the hour from 0..23, and one     *)
(* cycle runs up to the end of the sleep-hours test.                       *)
(***************************************************************************)
QuietGrid == {6, 12, 20}

RECURSIVE WindowLists(_)
WindowLists(n) ==
    IF n = 0 THEN { << >> }
    ELSE WindowLists(n - 1)
         \cup { Append(ws, << s, e >>) :
                    ws \in { w \in WindowLists(n - 1) : Len(w) = n - 1 },
                    s \in QuietGrid, e \in QuietGrid }

SleepHoursSettings ==
    WindowLists(MaxWindows) \cup { << << s, e >> >> : s \in 0..23, e \in 0..23 }

InitQuiet ==
    /\ pc = "create_service"
    /\ clock \in { Hms(2, h, 0, 0) : h \in 0..23 }
    /\ cycle = 1
    /\ work = 0
    /\ sleepHours \in SleepHoursSettings
    /\ nowDatetime = [sec |-> 0, us |-> 0]
    /\ skipped = FALSE
    /\ events = << >>
    /\ alerts = << >>
    /\ fetchCalls = 0
    /\ notifyLaunched = 0
    /\ audioLaunched = 0
    /\ exc = "none"
    /\ waitTime = 0
    /\ ret = -1
    /\ notifyArgs = << >>
    /\ tracked = [on |-> FALSE, start |-> 0]
    /\ hits = [m \in OffsetSet |-> 0]
    /\ exact = TRUE
    /\ childRunning = FALSE
    /\ serviceCalls = 0
    /\ raisedAt = "none"

NextQuiet ==
    \/ CreateServiceOk
    \/ ReadNow
    \/ SleepHoursCheck

SpecQuiet == InitQuiet /\ [][NextQuiet]_vars

(***************************************************************************)
(* A run that follows one event: the daemon starts on a minute boundary of *)
(* a waking hour and the calendar holds a single timed event that starts   *)
(* between 11 and 12 minutes later, at any second of the minute.           *)
(***************************************************************************)
CadenceLeads == 660..719

InitCadence ==
    /\ pc = "create_service"
    /\ clock = Hms(2, 10, 0, 0)
    /\ cycle = 1
    /\ work = 0
    /\ sleepHours = SLEEP_HOURS
    /\ nowDatetime = [sec |-> 0, us |-> 0]
    /\ skipped = FALSE
    /\ events = << >>
    /\ alerts = << >>
    /\ fetchCalls = 0
    /\ notifyLaunched = 0
    /\ audioLaunched = 0
    /\ exc = "none"
    /\ waitTime = 0
    /\ ret = -1
    /\ notifyArgs = << >>
    /\ \E d \in CadenceLeads :
          tracked = [on |-> TRUE, start |-> Hms(2, 10, 0, 0) + d]
    /\ hits = [m \in OffsetSet |-> 0]
    /\ exact = TRUE
    /\ childRunning = FALSE
    /\ serviceCalls = 0
    /\ raisedAt = "none"

SpecCadence == InitCadence /\ [][Next]_vars

(***************************************************************************)
(* Vocabulary of the properties.                                           *)
(***************************************************************************)
\* the current cycle has read its clock
ClockRead ==
    \/ pc \in {"sleep_hours", "fetch", "notify", "audio", "wait", "sleep"}
    \/ pc = "stopped" /\ raisedAt # "create_service"

\* the sleep-hours check of the current cycle has been made
QuietDecided == ClockRead /\ pc # "sleep_hours"

\* the work of the current cycle is over
WorkDone == pc \in {"wait", "sleep", "stopped"}

\* the quiet-hours policy for one window, as the design states it
WindowIsQuiet(w, h) ==
    IF w[2] < w[1] THEN h >= w[1] \/ h <= w[2]
    ELSE w[1] <= h /\ h <= w[2]

AnyWindowIsQuiet(windows, h) ==
    \E i \in 1..Len(windows) : WindowIsQuiet(windows[i], h)

\* the difference between the start of an event and the cycle's instant
DeltaOf(event) ==
    TimeDelta(ReplaceTzinfoNone(FromIsoformat(StartString(event))),
              nowDatetime)

\* whole seconds from the cycle's instant to the start of an event
DeltaSeconds(event) == DeltaOf(event).days * 86400 + DeltaOf(event).seconds

HasAlert(event) ==
    \E j \in 1..Len(alerts) :
        /\ alerts[j].summary = event.summary
        /\ alerts[j].date = StartString(event)

(***************************************************************************)
(* C1: monitor_events never creates an Alert for an event whose start is   *)
(* strictly earlier than the cycle's instant, whatever the size of the     *)
(* difference.                                                             *)
(***************************************************************************)
C1_NoAlertForStartedEvent ==
    \A i \in 1..Len(events) :
        DeltaOf(events[i]).days < 0 => ~HasAlert(events[i])

(***************************************************************************)
(* C2: for every fetched event that starts D >= 0 seconds after the        *)
(* cycle's instant, one day or more included, an Alert is created iff D/60 *)
(* rounded to the nearest integer is in MINUTES_LEFT.                      *)
(***************************************************************************)
C2_AlertIffRoundedMinutesInOffsets ==
    \A i \in 1..Len(events) :
        DeltaOf(events[i]).days >= 0 =>
            (HasAlert(events[i])
                <=> InMinutesLeft(RoundMinutes(DeltaSeconds(events[i]))))

(***************************************************************************)
(* C3: when the Calendar API call raises, the scheduler loop does not      *)
(* stop.                                                                   *)
(***************************************************************************)
C3_FetchFailureKeepsLoopRunning ==
    exc = "fetch" => (pc # "stopped" /\ ret = -1)

(***************************************************************************)
(* C4: when the launch of the notification or of the audio command fails,  *)
(* the scheduler loop is not terminated.                                   *)
(***************************************************************************)
C4_LaunchFailureKeepsLoopRunning ==
    exc \in {"notify", "audio"} => (pc # "stopped" /\ ret = -1)

(***************************************************************************)
(* C5: a cycle whose hour lies inside a configured quiet window ends       *)
(* without a call of the Calendar API, without a notification and without  *)
(* audio playback.                                                         *)
(***************************************************************************)
C5_QuietCycleDoesNothing ==
    (QuietDecided /\ AnyWindowIsQuiet(sleepHours, Hour(nowDatetime))) =>
        /\ pc \in {"wait", "sleep"} \/ (pc = "stopped" /\ raisedAt = "sleep")
        /\ fetchCalls = 0
        /\ notifyLaunched = 0
        /\ audioLaunched = 0

C5_Witness ==
    /\ pc = "sleep"
    /\ Hour(nowDatetime) = 20
    /\ AnyWindowIsQuiet(sleepHours, Hour(nowDatetime))
    /\ cycle = 2
    /\ fetchCalls = 0

(***************************************************************************)
(* C6: with a single window (s, e) that wraps (e < s), the check           *)
(* suppresses the cycle iff h >= s or h <= e; for (20, 6) the hours 20,    *)
(* 21, 3 and 6 are quiet and the hours 7 and 10 are not.                   *)
(***************************************************************************)
C6_WrappingWindow ==
    (QuietDecided /\ Len(sleepHours) = 1 /\ sleepHours[1][2] < sleepHours[1][1])
    => LET s == sleepHours[1][1]
           e == sleepHours[1][2]
           h == Hour(nowDatetime)
       IN  /\ skipped <=> (h >= s \/ h <= e)
           /\ (s = 20 /\ e = 6 /\ h \in {20, 21, 3, 6}) => skipped
           /\ (s = 20 /\ e = 6 /\ h \in {7, 10}) => ~skipped

C6_Witness ==
    /\ QuietDecided
    /\ sleepHours = << <<20, 6>> >>
    /\ Hour(nowDatetime) = 3
    /\ skipped

(***************************************************************************)
(* C7: with a single window (s, e) that does not wrap (s <= e), the check  *)
(* suppresses the cycle iff s <= h <= e; a window with s = e is quiet only *)
(* during hour s.                                                          *)
(***************************************************************************)
C7_NonWrappingWindow ==
    (QuietDecided /\ Len(sleepHours) = 1 /\ sleepHours[1][1] <= sleepHours[1][2])
    => LET s == sleepHours[1][1]
           e == sleepHours[1][2]
           h == Hour(nowDatetime)
       IN  /\ skipped <=> (s <= h /\ h <= e)
           /\ s = e => (skipped <=> h = s)

C7_Witness ==
    /\ QuietDecided
    /\ sleepHours = << <<12, 12>> >>
    /\ Hour(nowDatetime) = 12
    /\ skipped

(***************************************************************************)
(* C8: with several windows the cycle is suppressed iff at least one       *)
(* window matches the hour, whatever the order of the windows; with no     *)
(* window no cycle is suppressed.                                          *)
(***************************************************************************)
C8_AnyWindow ==
    QuietDecided =>
        /\ skipped <=> AnyWindowIsQuiet(sleepHours, Hour(nowDatetime))
        /\ sleepHours = << >> => ~skipped

C8_Witness ==
    /\ QuietDecided
    /\ Len(sleepHours) = 2
    /\ ~WindowIsQuiet(sleepHours[1], Hour(nowDatetime))
    /\ WindowIsQuiet(sleepHours[2], Hour(nowDatetime))
    /\ skipped

(***************************************************************************)
(* C9: a cycle with at least one matched alert launches exactly one        *)
(* notification process and exactly one audio process; a cycle with no     *)
(* matched alert launches neither.                                         *)
(***************************************************************************)
C9_OneNotificationOneAudio ==
    WorkDone =>
        /\ alerts # << >> => (notifyLaunched = 1 /\ audioLaunched = 1)
        /\ alerts = << >> => (notifyLaunched = 0 /\ audioLaunched = 0)

(***************************************************************************)
(* C10: when the Calendar API call raises, no notification and no audio    *)
(* process is launched in that cycle and the call is not made again in     *)
(* that cycle.                                                             *)
(***************************************************************************)
C10_FetchFailureNoDispatchNoRetry ==
    exc = "fetch" =>
        /\ fetchCalls = 1
        /\ notifyLaunched = 0
        /\ audioLaunched = 0

C10_Witness ==
    /\ exc = "fetch"
    /\ pc = "stopped"
    /\ cycle = 2

(***************************************************************************)
(* C11: after a cycle's work the scheduler sleeps 60 - S seconds, S being  *)
(* the seconds field of the clock read after the work; the sleep is in     *)
(* 1..60, and at S = 0 it is 60, never 0.                                  *)
(***************************************************************************)
C11_SleepIsSixtyMinusSecond ==
    pc = "sleep" =>
        /\ waitTime = 60 - (clock % 60)
        /\ waitTime \in 1..60
        /\ (clock % 60 = 0) => waitTime = 60

C11_Witness ==
    /\ pc = "sleep"
    /\ clock % 60 = 0
    /\ waitTime = 60

(***************************************************************************)
(* C12: the value create_daemon returns tells the two causes of a stop     *)
(* apart: an unexpected exception of a cycle stops the loop with a         *)
(* non-zero value, SystemExit stops it with zero.                          *)
(***************************************************************************)
C12_ReturnValueTellsStopCause ==
    /\ pc = "stopped" <=> exc # "none"
    /\ pc # "stopped" => ret = -1
    /\ (pc = "stopped" /\ exc = "SystemExit") => ret = 0
    /\ (pc = "stopped" /\ exc # "SystemExit") => (ret # 0 /\ ret # -1)

C12_Witness ==
    /\ pc = "stopped"
    /\ exc = "SystemExit"
    /\ raisedAt = "sleep"
    /\ ret = 0

(***************************************************************************)
(* C13: with one alert the heading is "Upcoming event: " followed by the   *)
(* first 50 characters of the title and the text is "In {minutesLeft}      *)
(* minutes [{eventStart}] -> {title}"; with n > 1 alerts the heading is    *)
(* "Upcoming events: n" and the text is the n entries of that format, one  *)
(* per alert, joined by newlines.                                          *)
(***************************************************************************)
EntryOf(a) ==
    [ fmt  |-> "In %d minutes [%s] -> %s",
      args |-> << a.minutes_left, a.date, a.summary >> ]

C13_DispatchPhrasing ==
    notifyArgs # << >> =>
        LET n     == Len(alerts)
            title == notifyArgs[4]
            body  == notifyArgs[5]
        IN  /\ n >= 1
            /\ n = 1 =>
                 LET shown == title.args[1]
                     whole == alerts[1].summary
                 IN  /\ title.fmt = "Upcoming event: %s"
                     /\ Len(shown) = (IF Len(whole) < 50 THEN Len(whole) ELSE 50)
                     /\ \A k \in 1..Len(shown) : shown[k] = whole[k]
                     /\ body = EntryOf(alerts[1])
            /\ n > 1 =>
                 /\ title.fmt = "Upcoming events: %d"
                 /\ title.args = << n >>
                 /\ body.sep = "\n"
                 /\ Len(body.items) = n
                 /\ \A i \in 1..n : body.items[i] = EntryOf(alerts[i])

C13_Witness ==
    /\ notifyLaunched = 1
    /\ Len(alerts) = 1
    /\ Len(alerts[1].summary) > 50
    /\ Len(notifyArgs[4].args[1]) = 50

(***************************************************************************)
(* C14: with cycles exactly 60 seconds apart and none of them quiet, for a *)
(* fixed event and each offset m of MINUTES_LEFT the event is alerted with *)
(* minutesLeft = m in one and only one cycle of the run, for any start     *)
(* time of the event relative to the cycle instants.                       *)
(***************************************************************************)
C14_EachOffsetInExactlyOneCycle ==
    (tracked.on /\ exact) =>
        \A m \in OffsetSet :
            /\ hits[m] <= 1
            /\ (fetchCalls = 1 /\ raisedAt \notin {"fetch", "create_service"}
                    /\ nowDatetime.sec > tracked.start)
               => hits[m] = 1

(***************************************************************************)
(* C15: with sleeps that last exactly the requested time, every wake after *)
(* the first is in second 0 of the minute after the one in which the       *)
(* previous cycle's work finished; so when a cycle's work finishes in the  *)
(* minute in which it started, the next cycle runs in the next minute.     *)
(***************************************************************************)
C15_WakeAtSecondZeroOfNextMinute ==
    [][ (pc = "sleep" /\ pc' = "create_service") =>
            /\ clock' % 60 = 0
            /\ clock' \div 60 = (clock \div 60) + 1
            /\ (clock \div 60 = (clock - work) \div 60)
               => clock' \div 60 = ((clock - work) \div 60) + 1 ]_vars

C15_Witness ==
    /\ cycle = 2
    /\ pc = "create_service"
    /\ work = 0
    /\ clock % 60 = 0
    /\ waitTime < 60

(***************************************************************************)
(* C16: the alerts of a cycle are in the relative order of their events in *)
(* the response of the Calendar API (the alert list is an order-preserving *)
(* subsequence of the fetched events), and the lines of a multi-alert      *)
(* notification follow that order.                                         *)
(***************************************************************************)
C16_AlertsKeepEventOrder ==
    /\ Len(alerts) <= Len(events)
    /\ \E f \in [1..Len(alerts) -> 1..Len(events)] :
          /\ \A j \in 1..(Len(alerts) - 1) : f[j] < f[j + 1]
          /\ \A j \in 1..Len(alerts) :
                /\ alerts[j].summary = events[f[j]].summary
                /\ alerts[j].date = StartString(events[f[j]])
    /\ (notifyArgs # << >> /\ Len(alerts) > 1) =>
          \A i \in 1..Len(alerts) :
              notifyArgs[5].items[i].args[3] = alerts[i].summary
              /\ notifyArgs[5].items[i].args[2] = alerts[i].date

C16_Witness ==
    /\ Len(events) = 2
    /\ Len(alerts) = 2
    /\ alerts[1].summary # alerts[2].summary
    /\ notifyLaunched = 1

(***************************************************************************)
(* C17: within one cycle the quiet-hours decision and the minutes-left     *)
(* value of every event come from the one clock reading taken at the start *)
(* of the cycle, however much time passes before the events are matched.   *)
(***************************************************************************)
C17_OneClockReadingPerCycle ==
    /\ QuietDecided =>
          (skipped <=> AnyWindowIsQuiet(sleepHours, Hour(nowDatetime)))
    /\ \A i \in 1..Len(events) :
          HasAlert(events[i])
              <=> InMinutesLeft(RoundMinutes(DeltaOf(events[i]).seconds))
    /\ \A j \in 1..Len(alerts) :
          \E i \in 1..Len(events) :
              /\ alerts[j].summary = events[i].summary
              /\ alerts[j].date = StartString(events[i])
              /\ alerts[j].minutes_left
                     = RoundMinutes(DeltaOf(events[i]).seconds)

C17_Witness ==
    /\ pc = "notify"
    /\ clock # nowDatetime.sec
    /\ ~skipped
    /\ Len(alerts) = 1
    /\ Len(events) = 2

(***************************************************************************)
(* C18: cycles never overlap: the next cycle starts only when the work of  *)
(* the current one and the sleep after it are over, although the child     *)
(* processes the current cycle launched are not waited for and may still   *)
(* be running.                                                             *)
(***************************************************************************)
C18_CyclesNeverOverlap ==
    [][ /\ cycle' # cycle =>
              /\ pc = "sleep" /\ pc' = "create_service"
              /\ cycle' = cycle + 1
              /\ waitTime >= 1
              /\ clock' = clock + waitTime
        /\ pc' = "create_service" => (pc = "sleep" \/ pc = "create_service")
        /\ (pc \in {"notify", "audio"} /\ pc' \in {"audio", "wait"})
              => (childRunning' /\ clock' = clock) ]_vars

C18_Witness ==
    /\ cycle = 2
    /\ pc = "fetch"
    /\ childRunning

(***************************************************************************)
(* C19: the minutes-left value of any event is an integer in 0..1440,      *)
(* never negative, and depends only on the difference modulo 24 hours: two *)
(* events whose starts differ by a whole number of days get the same value *)
(* in the same cycle.                                                      *)
(***************************************************************************)
\* seconds within the day of (start of the event - cycle's instant)
SecondsWithinDay(event) ==
    (StartWall(event) - nowDatetime.sec
         - (IF nowDatetime.us > 0 THEN 1 ELSE 0)) % 86400

C19_MinutesLeftWithinADay ==
    /\ \A i \in 1..Len(events) :
          LET m == MinsLeft(events[i], nowDatetime)
          IN  /\ m \in 0..1440
              /\ m = RoundMinutes(SecondsWithinDay(events[i]))
              /\ \A j \in 1..Len(events) :
                    (StartWall(events[i]) - StartWall(events[j])) % 86400 = 0
                    => /\ MinsLeft(events[j], nowDatetime) = m
                       /\ HasAlert(events[i]) <=> HasAlert(events[j])
    /\ \A j \in 1..Len(alerts) : alerts[j].minutes_left \in 0..1440

C19_Witness ==
    /\ Len(events) = 2
    /\ StartWall(events[2]) - StartWall(events[1]) = 2 * 86400
    /\ Len(alerts) = 2
    /\ alerts[1].minutes_left = alerts[2].minutes_left

(***************************************************************************)
(* C20: every cycle, a cycle in quiet hours included, calls create_service *)
(* exactly once and before the quiet-hours decision; an exception of       *)
(* create_service therefore stops the loop with a non-zero return value,   *)
(* in quiet hours too.                                                     *)
(***************************************************************************)
C20_ServiceCreatedFirstInEveryCycle ==
    /\ pc = "create_service" => (serviceCalls = 0 /\ ~skipped)
    /\ pc # "create_service" => serviceCalls = 1
    /\ (QuietDecided /\ skipped) => serviceCalls = 1
    /\ exc = "create_service" =>
          (pc = "stopped" /\ ret = 1 /\ fetchCalls = 0 /\ ~skipped)

C20_Witness ==
    /\ exc = "create_service"
    /\ ret = 1
    /\ cycle = 2
    /\ AnyWindowIsQuiet(sleepHours, Hour([sec |-> clock, us |-> 0]))

====
